---- MODULE Spec2Model ----
(***************************************************************************)
(* Model of data-endpoint/src/create_accessibility_report.py: the SPARQL   *)
(* endpoint accessibility report.  One run of main() loads the endpoint    *)
(* list, probes the endpoints, merges the fresh statuses with the report   *)
(* that <directory>/sparql.json resolves to, writes sparql-<date>.json and *)
(* optionally re-points the sparql.json symlink.                           *)
(*                                                                         *)
(* Dates are the integers 1..MaxDate (a "%Y-%m-%d" string orders and       *)
(* compares like the day number it names); 0 stands for Python's None      *)
(* wherever a date is optional.  The "@id" key of the JSON documents is    *)
(* the field id.  Endpoint lists carry pairwise distinct @id values (the   *)
(* @id is the identity of an endpoint); url values may repeat.             *)
(***************************************************************************)
EXTENDS Integers, Sequences, FiniteSets, TLC

\* ---------------------------------------------------------------- bounds
MaxDate == 3
MaxRuns == 3
MaxLen == 2
MaxLong == 6

\* ------------------------------------------------------ program constants
TIMEOUT_SECOND == 5
STATUS_UNAVAILABLE == "unavailable"
STATUS_QUERY_FAILED == "invalid"
STATUS_AVAILABLE == "available"
BreakIndex == 3
ReportVersion == 1

Dates == 1 .. MaxDate
Statuses == {STATUS_UNAVAILABLE, STATUS_QUERY_FAILED, STATUS_AVAILABLE}
AllIds == 1 .. (MaxLen + MaxLong)

Range(s) == {s[i] : i \in DOMAIN s}

\* --------------------------------------------------------------- inputs
\* One item of content["endpoint"] in the endpoint file.
Item(i, u) == [id |-> i, url |-> u]

\* The elements of a set of ids as an ascending sequence.
RECURSIVE Ascending(_)
Ascending(S) ==
    IF S = {} THEN <<>>
    ELSE LET top == CHOOSE x \in S : \A y \in S : y <= x
         IN Append(Ascending(S \ {top}), top)

\* Endpoint files of the multi-run specification: every subset of the ids
\* 1..MaxLen in ascending order, the url of an endpoint being its id.
ShortFiles ==
    {[k \in DOMAIN s |-> Item(s[k], s[k])] :
        s \in {Ascending(S) : S \in SUBSET (1 .. MaxLen)}}

\* Endpoint files of the probing specification: every length up to MaxLong,
\* in ascending and in descending @id order, with distinct urls and with
\* urls that repeat.
LongFiles ==
    UNION {{[k \in 1 .. n |-> Item(k, k)],
            [k \in 1 .. n |-> Item(n + 1 - k, n + 1 - k)],
            [k \in 1 .. n |-> Item(k, 1 + (k % 2))]} : n \in 0 .. MaxLong}

\* Base + item["@id"]: string concatenation with the @base of the file.
Absolute(i) == <<"@base", i>>

load_endpoints(content) ==
    [k \in DOMAIN content |->
        [id |-> Absolute(content[k].id),
         relative |-> content[k].id,
         url |-> content[k].url]]

\* ---------------------------------------------------------------- probe
\* What endpoint.query().convert() does: raise, or return a value that is
\* a dict with some keys, or a value that is not a dict.
Raised == [raised |-> TRUE, isDict |-> FALSE, keys |-> {}]
Responses ==
    {Raised,
     [raised |-> FALSE, isDict |-> FALSE, keys |-> {}],
     [raised |-> FALSE, isDict |-> TRUE, keys |-> {"head", "results"}],
     [raised |-> FALSE, isDict |-> TRUE, keys |-> {"head", "boolean"}]}

\* endpoint.setQuery("SELECT ?s ?p ?o WHERE{ ?s ?p ?o } LIMIT 1")
Query == "SELECT"

test_endpoint(response) ==
    IF response.raised THEN <<FALSE, FALSE>>
    ELSE IF ~response.isDict \/ "boolean" \notin response.keys
         THEN <<TRUE, FALSE>>
         ELSE <<TRUE, TRUE>>

\* Faulty: the two failure statuses exchanged.
classify_exchanged(tested) ==
    IF ~tested[1] THEN STATUS_QUERY_FAILED
    ELSE IF ~tested[2] THEN STATUS_UNAVAILABLE
    ELSE STATUS_AVAILABLE

classify(tested) ==
    IF ~tested[1] THEN STATUS_UNAVAILABLE
    ELSE IF ~tested[2] THEN STATUS_QUERY_FAILED
    ELSE STATUS_AVAILABLE

\* {**endpoint, "status": status}
with_status(endpoint, status) ==
    [id |-> endpoint.id, relative |-> endpoint.relative,
     url |-> endpoint.url, status |-> status]

\* A faulty result.insert(0, ...).
append_result_first(res, item) == <<item>> \o res

\* result.append({**endpoint, "status": status})
append_result(res, item) == Append(res, item)

\* ----------------------------------------------------------- file system
Absent == [kind |-> "absent"]
Partial == [kind |-> "partial"]
None == [kind |-> "none"]
NoLink == 0

\* Faulty: one file name for every date.
report_path_fixed(date) == 1

\* report_path(directory, date): one path per date, named here by the date.
report_path(date) == date

VARIABLES
    directory,    \* args["output_directory"]: "absolute" or "relative" path
    files,        \* content of <directory>/sparql-<date>.json, per date
    link,         \* date whose report path sparql.json holds, or NoLink
    pc,           \* position of the running main(), "idle" between runs
    args,         \* args of the running main()
    endpoints,    \* main: endpoints
    index,        \* test_endpoints_availability: endpoints probed so far
    result,       \* test_endpoints_availability: result
    probed,       \* test_endpoints_availability: the latest call of
                  \* test_endpoint, its response and what it returned
    today,        \* write_report: today, 0 before it is read
    last_report,  \* write_report: what load_json returned
    report,       \* write_report: report
    runs,         \* number of runs started
    lastSeen,     \* history: per @id, created date of the latest run that
                  \* wrote a report with the @id available (0: never)
    streak,       \* history: per @id, the date D1 when the latest runs were
                  \* one with the @id available on D1 followed only by
                  \* runs with the @id not available (0: otherwise)
    clean,        \* history: every run so far had --symlink and returned
    sightings     \* history: the <<@id, created>> of every available
                  \* record of every report a run has loaded

vars == <<directory, files, link, pc, args, endpoints, index, result, probed,
          today, last_report, report, runs, lastSeen, streak, clean,
          sightings>>

locals == <<args, endpoints, index, result, probed, today, last_report,
            report>>
history == <<lastSeen, streak, clean, sightings>>

NoArgs == [symlink |-> FALSE]

\* ------------------------------------------------------------ load_json
\* The file a path through the symlink sparql.json reaches.  The link holds
\* os.path.join(directory, file_name); a relative link is resolved against
\* the directory of the link, so for a relative output directory it names
\* <directory>/<directory>/sparql-<date>.json, which does not exist.
resolve(dir, fs, l) ==
    IF l = NoLink THEN Absent
    ELSE IF dir = "relative" THEN Absent
    ELSE fs[l]

exists(dir, fs, l) == resolve(dir, fs, l) # Absent

\* json.load raises on a file that does not hold one complete document.
load_json_raises(dir, fs, l) == resolve(dir, fs, l) = Partial

load_json(dir, fs, l) ==
    IF ~exists(dir, fs, l) THEN None ELSE resolve(dir, fs, l)

\* --------------------------------------------------------- write_report
Get(item, key) == IF key \in DOMAIN item THEN item[key] ELSE 0

\* {report_item["@id"]: report_item for report_item in last_report["report"]}
\* a later item replaces an earlier one with the same @id.
availability_map(loaded) ==
    IF loaded = None THEN <<>>
    ELSE LET items == loaded.report
         IN [i \in {items[k].id : k \in DOMAIN items} |->
                items[CHOOSE k \in DOMAIN items :
                        /\ items[k].id = i
                        /\ \A j \in DOMAIN items : items[j].id = i => j <= k]]

\* Faulty: another field of the metadata is read.
last_date_of_wrong_field(loaded) ==
    IF loaded = None THEN 0 ELSE loaded.metadata.timeoutSecond

last_date_of(loaded) ==
    IF loaded = None THEN 0 ELSE loaded.metadata.created

\* Faulty: the date of the loaded report also for an entry that is not
\* available, in place of the lastAvailable it carries.
last_available_always_last_date(id, last_date, map) ==
    IF id \notin DOMAIN map THEN 0 ELSE last_date

\* Faulty: the carried value is read from a key the records never hold.
last_available_wrong_key(id, last_date, map) ==
    IF id \notin DOMAIN map THEN 0
    ELSE IF map[id].status = STATUS_AVAILABLE THEN last_date
    ELSE Get(map[id], "last_available")

\* Faulty: an endpoint without an entry counts as available in the loaded
\* report.
last_available_default_date(id, last_date, map) ==
    IF id \notin DOMAIN map THEN last_date
    ELSE IF map[id].status = STATUS_AVAILABLE THEN last_date
    ELSE Get(map[id], "lastAvailable")

\* The lastAvailable of a record whose status is not available (0: None).
last_available(id, last_date, map) ==
    IF id \notin DOMAIN map THEN 0
    ELSE IF map[id].status = STATUS_AVAILABLE THEN last_date
    ELSE Get(map[id], "lastAvailable")

\* Faulty: without the test "last_available is not None".
report_item_none_stored(endpoint, last_date, map) ==
    LET item == [id |-> endpoint.relative,
                 endpoint |-> endpoint.id,
                 url |-> endpoint.url,
                 status |-> endpoint.status]
        la == last_available(item.id, last_date, map)
    IN IF endpoint.status # STATUS_AVAILABLE
       THEN item @@ [lastAvailable |-> la]
       ELSE item

\* Faulty: without the test of the fresh status.
report_item_any_status(endpoint, last_date, map) ==
    LET item == [id |-> endpoint.relative,
                 endpoint |-> endpoint.id,
                 url |-> endpoint.url,
                 status |-> endpoint.status]
        la == last_available(item.id, last_date, map)
    IN IF la # 0
       THEN item @@ [lastAvailable |-> la]
       ELSE item

report_item(endpoint, last_date, map) ==
    LET item == [id |-> endpoint.relative,
                 endpoint |-> endpoint.id,
                 url |-> endpoint.url,
                 status |-> endpoint.status]
        la == last_available(item.id, last_date, map)
    IN IF endpoint.status # STATUS_AVAILABLE /\ la # 0
       THEN item @@ [lastAvailable |-> la]
       ELSE item

report_items(availability, loaded) ==
    [k \in DOMAIN availability |->
        report_item(availability[k], last_date_of(loaded),
                    availability_map(loaded))]

build_report(availability, loaded, date) ==
    [kind |-> "json",
     metadata |-> [created |-> date,
                   timeoutSecond |-> TIMEOUT_SECOND,
                   version |-> ReportVersion],
     report |-> report_items(availability, loaded)]

\* ----------------------------------------------------------------- Init
Init ==
    /\ directory \in {"absolute", "relative"}
    /\ files = [d \in Dates |-> Absent]
    /\ link = NoLink
    /\ pc = "idle"
    /\ args = NoArgs
    /\ endpoints = <<>>
    /\ index = 0
    /\ result = <<>>
    /\ probed = None
    /\ today = 0
    /\ last_report = None
    /\ report = None
    /\ runs = 0
    /\ lastSeen = [i \in AllIds |-> 0]
    /\ streak = [i \in AllIds |-> 0]
    /\ clean = TRUE
    /\ sightings = {}

\* -------------------------------------------------------------- history
HasStatus(rep, i, statuses) ==
    \E k \in DOMAIN rep.report :
        rep.report[k].id = i /\ rep.report[k].status \in statuses

SeenAfter(rep) ==
    [i \in AllIds |->
        IF HasStatus(rep, i, {STATUS_AVAILABLE})
        THEN rep.metadata.created ELSE lastSeen[i]]

StreakAfter(rep) ==
    [i \in AllIds |->
        IF HasStatus(rep, i, {STATUS_AVAILABLE}) THEN rep.metadata.created
        ELSE IF HasStatus(rep, i, Statuses) THEN streak[i]
        ELSE 0]

\* The <<@id, created>> of the available records of a loaded report.
Sightings(loaded) ==
    IF loaded = None THEN {}
    ELSE {<<item.id, loaded.metadata.created>> :
            item \in {x \in Range(loaded.report) :
                        x.status = STATUS_AVAILABLE}}

\* The run that ends now has written rep.
Record(rep, returned) ==
    /\ lastSeen' = SeenAfter(rep)
    /\ streak' = StreakAfter(rep)
    /\ clean' = (clean /\ returned /\ args.symlink)
    /\ UNCHANGED sightings

ResetLocals ==
    /\ args' = NoArgs
    /\ endpoints' = <<>>
    /\ index' = 0
    /\ result' = <<>>
    /\ probed' = None
    /\ today' = 0
    /\ last_report' = None
    /\ report' = None

\* -------------------------------------------------------------- actions
\* main: read_arguments and load_endpoints.
Start(contents, maxRuns) ==
    /\ pc = "idle"
    /\ runs < maxRuns
    /\ \E symlink \in BOOLEAN, content \in contents :
        /\ args' = [symlink |-> symlink]
        /\ endpoints' = load_endpoints(content)
        /\ pc' = IF Len(content) = 0 THEN "write_report" ELSE "probe"
    /\ runs' = runs + 1
    /\ index' = 0
    /\ result' = <<>>
    /\ UNCHANGED <<directory, files, link, probed, today, last_report, report,
                   history>>

\* test_endpoints_availability: one iteration of the loop.
TestEndpoint ==
    /\ pc = "probe"
    /\ index < Len(endpoints)
    /\ \E response \in Responses :
        LET endpoint == endpoints[index + 1]
            tested == test_endpoint(response)
            status == classify(tested)
        IN /\ result' = append_result(result, with_status(endpoint, status))
           /\ probed' = [url |-> endpoint.url, response |-> response,
                         tested |-> tested]
    /\ index' = index + 1
    /\ pc' = IF index > BreakIndex \/ index + 1 = Len(endpoints)
             THEN "write_report" ELSE "probe"
    /\ UNCHANGED <<directory, files, link, args, endpoints, today,
                   last_report, report, runs, history>>

\* Faulty: the report file is opened for writing before the previous report
\* is loaded.
WriteReport_opens_first ==
    /\ pc = "write_report"
    /\ \E date \in Dates :
        IF load_json_raises(directory, files, link)
        THEN /\ today' = date
             /\ pc' = "raised"
             /\ files' = [files EXCEPT ![report_path(date)] = Partial]
             /\ UNCHANGED <<last_report, report, sightings>>
        ELSE LET loaded == load_json(directory, files, link)
             IN /\ today' = date
                /\ last_report' = loaded
                /\ report' = build_report(result, loaded, date)
                /\ files' = [files EXCEPT ![report_path(date)] = Partial]
                /\ sightings' = sightings \cup Sightings(loaded)
                /\ pc' = "write_json"
    /\ probed' = None
    /\ UNCHANGED <<directory, link, args, endpoints, index, result, runs,
                   lastSeen, streak, clean>>

\* write_report up to the open(path, "w") of write_json; json.load raising
\* on the previous report leaves write_report and main with the exception.
WriteReport ==
    /\ pc = "write_report"
    /\ \E date \in Dates :
        IF load_json_raises(directory, files, link)
        THEN /\ today' = date
             /\ pc' = "raised"
             /\ UNCHANGED <<files, last_report, report, sightings>>
        ELSE LET loaded == load_json(directory, files, link)
             IN /\ today' = date
                /\ last_report' = loaded
                /\ report' = build_report(result, loaded, date)
                /\ files' = [files EXCEPT ![report_path(date)] = Partial]
                /\ sightings' = sightings \cup Sightings(loaded)
                /\ pc' = "write_json"
    /\ probed' = None
    /\ UNCHANGED <<directory, link, args, endpoints, index, result, runs,
                   lastSeen, streak, clean>>

\* Faulty: the pointer is updated whatever args["symlink"] is.
WriteJson_always_links ==
    /\ pc = "write_json"
    /\ files' = [files EXCEPT ![report_path(today)] = report]
    /\ pc' = "unlink"
    /\ UNCHANGED <<directory, link, locals, runs, history>>

\* write_json: json.dump and close.
WriteJson ==
    /\ pc = "write_json"
    /\ files' = [files EXCEPT ![report_path(today)] = report]
    /\ pc' = IF args.symlink THEN "unlink" ELSE "exit"
    /\ UNCHANGED <<directory, link, locals, runs, history>>

\* symlink_report: symlink.unlink(missing_ok=True)
Unlink ==
    /\ pc = "unlink"
    /\ link' = NoLink
    /\ pc' = "symlink_to"
    /\ UNCHANGED <<directory, files, locals, runs, history>>

\* symlink_report: symlink.symlink_to(target_path)
SymlinkTo ==
    /\ pc = "symlink_to"
    /\ link' = report_path(today)
    /\ pc' = "exit"
    /\ UNCHANGED <<directory, files, locals, runs, history>>

\* The process ends: main has returned, or the exception of json.load has
\* left it.
Return ==
    /\ pc \in {"exit", "raised"}
    /\ pc' = "idle"
    /\ IF pc = "exit"
       THEN Record(report, TRUE)
       ELSE /\ clean' = FALSE
            /\ UNCHANGED <<lastSeen, streak, sightings>>
    /\ ResetLocals
    /\ UNCHANGED <<directory, files, link, runs>>

\* The process is killed, or a system call fails, after write_json has opened
\* the report file.  (Before that a run has changed nothing on disk.)
Interrupt ==
    /\ pc \in {"write_json", "unlink", "symlink_to"}
    /\ pc' = "idle"
    /\ IF pc \in {"unlink", "symlink_to"}
       THEN Record(report, FALSE)
       ELSE /\ clean' = FALSE
            /\ UNCHANGED <<lastSeen, streak, sightings>>
    /\ ResetLocals
    /\ UNCHANGED <<directory, files, link, runs>>

Next ==
    \/ Start(ShortFiles, MaxRuns)
    \/ TestEndpoint
    \/ WriteReport
    \/ WriteJson
    \/ Unlink
    \/ SymlinkTo
    \/ Return
    \/ Interrupt

Spec == Init /\ [][Next]_vars

\* A single run over a long endpoint file in a fresh output directory.
NextProbe ==
    \/ Start(LongFiles, 1)
    \/ TestEndpoint
    \/ WriteReport
    \/ WriteJson
    \/ Unlink
    \/ SymlinkTo
    \/ Return
    \/ Interrupt

SpecProbe == Init /\ [][NextProbe]_vars

TypeOK ==
    /\ pc \in {"idle", "probe", "write_report", "write_json", "unlink",
               "symlink_to", "exit", "raised"}
    /\ link \in {NoLink} \cup Dates
    /\ index \in 0 .. Len(endpoints)
    /\ Len(result) = index

\* ------------------------------------------------------------ properties
\* write_report has built the report of this run / has written it to disk.
Built == pc \in {"write_json", "unlink", "symlink_to", "exit"}
Written == pc \in {"unlink", "symlink_to", "exit"}

Records == {report.report[k] : k \in DOMAIN report.report}
HasLastAvailable(item) == "lastAvailable" \in DOMAIN item

\* The records of the loaded previous report with the given @id.
Prior(i) ==
    IF last_report = None THEN {}
    ELSE {item \in Range(last_report.report) : item.id = i}

C2_LastAvailablePresentIff ==
    Written =>
        \A item \in Records :
            HasLastAvailable(item) <=>
                /\ item.status # STATUS_AVAILABLE
                /\ \E prior \in Prior(item.id) :
                    \/ prior.status = STATUS_AVAILABLE
                    \/ HasLastAvailable(prior)

\* Both directions in one report: a record with lastAvailable because of a
\* carried one, and a non-available record without, its prior record
\* holding no sighting.
C2_Witness ==
    /\ Written
    /\ \E item \in Records :
        /\ HasLastAvailable(item)
        /\ \E prior \in Prior(item.id) : HasLastAvailable(prior)
    /\ \E item \in Records :
        /\ item.status # STATUS_AVAILABLE
        /\ ~HasLastAvailable(item)
        /\ Prior(item.id) # {}

\* C3: an endpoint available in a run on D1 and not available in each of the
\* runs that follow has lastAvailable = D1 in each of their reports.
C3_CarryForward ==
    Written =>
        \A item \in Records :
            (item.status # STATUS_AVAILABLE /\ streak[item.id] # 0) =>
                /\ HasLastAvailable(item)
                /\ item.lastAvailable = streak[item.id]

\* C4: a record whose fresh status is available has no lastAvailable.
C4_ClearOnRecovery ==
    Written =>
        \A k \in DOMAIN result :
            result[k].status = STATUS_AVAILABLE =>
                ~HasLastAvailable(report.report[k])

\* An endpoint recovers: its prior record was not available and carried a
\* lastAvailable, its fresh status is available.
C4_Witness ==
    /\ Written
    /\ \E k \in DOMAIN result :
        /\ result[k].status = STATUS_AVAILABLE
        /\ ~HasLastAvailable(report.report[k])
        /\ \E prior \in Prior(report.report[k].id) :
            /\ prior.status # STATUS_AVAILABLE
            /\ HasLastAvailable(prior)

\* The merge rule of the specification, over the records of the previous
\* report: 0 is an absent lastAvailable.
MergeRule(s, createdDate, priors) ==
    IF s = STATUS_AVAILABLE THEN 0
    ELSE IF \E prior \in priors : prior.status = STATUS_AVAILABLE
         THEN createdDate
    ELSE IF \E prior \in priors : HasLastAvailable(prior)
         THEN (CHOOSE prior \in priors : HasLastAvailable(prior)).lastAvailable
    ELSE 0

\* C5: the lastAvailable of every record of a built report is the result of
\* the merge rule on the fresh status, the created date of the loaded
\* report and its record of the same @id.
C5_MergeRule ==
    Built =>
        \A k \in DOMAIN result :
            Get(report.report[k], "lastAvailable") =
                MergeRule(result[k].status,
                          IF last_report = None THEN 0
                          ELSE last_report.metadata.created,
                          Prior(result[k].relative))

\* One built report shows three branches of the rule: a fresh available
\* endpoint with a prior record, and a non-available one whose prior record
\* is available.
C5_Witness ==
    /\ Built
    /\ \E k \in DOMAIN result :
        /\ result[k].status = STATUS_AVAILABLE
        /\ Prior(result[k].relative) # {}
    /\ \E k \in DOMAIN result :
        /\ result[k].status # STATUS_AVAILABLE
        /\ \E prior \in Prior(result[k].relative) :
            prior.status = STATUS_AVAILABLE
        /\ Get(report.report[k], "lastAvailable") =
            last_report.metadata.created

\* C6: every run probes every endpoint of the input list once and its report
\* holds one record per input endpoint, whatever the length of the list.
C6_EveryEndpointReported ==
    Built =>
        /\ index = Len(endpoints)
        /\ Len(report.report) = Len(endpoints)
        /\ \A k \in DOMAIN endpoints :
            report.report[k].url = endpoints[k].url

\* C7: record k of the report describes the k-th input endpoint, with the
\* status of the k-th probe.
C7_OrderPreserved ==
    /\ pc \in {"probe", "write_report"} =>
        \A k \in DOMAIN result :
            /\ result[k].relative = endpoints[k].relative
            /\ result[k].url = endpoints[k].url
    /\ Built =>
        \A k \in DOMAIN report.report :
            /\ report.report[k].id = endpoints[k].relative
            /\ report.report[k].endpoint = endpoints[k].id
            /\ report.report[k].url = endpoints[k].url
            /\ report.report[k].status = result[k].status

\* A report of several records in descending @id order whose probes ended
\* in three different ways.
C7_Witness ==
    /\ Built
    /\ Len(report.report) >= 3
    /\ report.report[1].id > report.report[2].id
    /\ {report.report[k].status : k \in 1 .. 3} = Statuses
    /\ \A k \in DOMAIN report.report :
        report.report[k].id = endpoints[k].relative

\* What the next run would load is the report this run wrote.
LoadsThisReport ==
    /\ ~load_json_raises(directory, files, link)
    /\ load_json(directory, files, link) = report

\* C8: when a run has completed, the report it wrote is the one the next
\* run loads, with or without --symlink.
C8_NextRunLoadsReport ==
    pc = "exit" => LoadsThisReport

\* C9: no step of symlink_report, and no interruption of it, takes away a
\* pointer that resolved to a report before the step.
C9_PointerNeverMissing ==
    [][(pc \in {"unlink", "symlink_to"} /\ exists(directory, files, link))
        => exists(directory', files', link')]_vars

\* C10: a record whose @id has no entry in the loaded report (none was
\* loaded, or it does not hold the @id) has no lastAvailable, and a run
\* ends with the exception of load_json only if a previous report exists.
C10_NoEntryNoLastAvailable ==
    /\ Written =>
        \A item \in Records :
            Prior(item.id) = {} => ~HasLastAvailable(item)
    /\ pc = "raised" => exists(directory, files, link)
    /\ runs = 1 => pc # "raised"

\* A report was loaded that does not hold the @id of a non-available
\* endpoint, next to an endpoint whose lastAvailable it does provide.
C10_Witness ==
    /\ Written
    /\ last_report # None
    /\ \E item \in Records :
        /\ item.status # STATUS_AVAILABLE
        /\ Prior(item.id) = {}
        /\ ~HasLastAvailable(item)
    /\ \E item \in Records : HasLastAvailable(item)


\* C11: a run that finds the previous report unparsable ends with the
\* exception; neither then nor when the process ends is a report file
\* written or changed or the pointer sparql.json touched.
C11_UnparsableHistoryAborts ==
    [][/\ (pc = "write_report" /\ load_json_raises(directory, files, link))
            => (pc' = "raised" /\ files' = files /\ link' = link)
       /\ pc = "raised"
            => (pc' = "idle" /\ files' = files /\ link' = link)]_vars

\* A run has stopped on a half-written previous report: no file of its own
\* date exists and the pointer still names the unparsable file.
C11_Witness ==
    /\ pc = "raised"
    /\ load_json_raises(directory, files, link)
    /\ link # report_path(today)
    /\ files[report_path(today)] = Absent

\* The report file the history of this run was loaded from.
LoadedFrom == report_path(last_report.metadata.created)

\* C12 as stated, same-date runs included: from the load on, the file the
\* history was loaded from holds what was loaded.
C12_PreviousReportUnchanged ==
    (Built /\ last_report # None) => files[LoadedFrom] = last_report

\* C12 amended: a run on a date other than that of the report file it
\* loaded its history from leaves that file as it was.
C12_OtherDateReportUnchanged ==
    (Built /\ last_report # None /\ today # last_report.metadata.created) =>
        files[LoadedFrom] = last_report

\* A run on a later date has written a report that differs from the one it
\* loaded, and has moved the pointer to it.
C12_Witness ==
    /\ pc = "exit"
    /\ last_report # None
    /\ today # last_report.metadata.created
    /\ link = report_path(today)
    /\ files[report_path(today)] = report
    /\ files[LoadedFrom] = last_report
    /\ report.report # last_report.report

\* C13: whenever no run is in progress, so also after write_json was
\* interrupted, no report file is half-written.
C13_NoHalfWrittenReport ==
    pc = "idle" =>
        /\ \A d \in Dates : files[d] # Partial
        /\ resolve(directory, files, link) # Partial

\* C14: no url is probed twice in a run and no url appears in two records
\* of a report.
C14_NoDuplicateUrl ==
    /\ \A j, k \in DOMAIN result :
        result[j].url = result[k].url => j = k
    /\ Built =>
        \A j, k \in DOMAIN report.report :
            report.report[j].url = report.report[k].url => j = k


\* The status written for the latest probe.
LatestStatus == result[index].status

\* C15: the status of a probed endpoint is unavailable iff the query raised
\* (test_endpoint says not reachable), invalid iff test_endpoint says
\* reachable and not queryable, available iff it says reachable and
\* queryable; every status in a result or a report is one of the three.
C15_ClassificationTotal ==
    /\ (pc \in {"probe", "write_report"} /\ probed # None) =>
        /\ LatestStatus = STATUS_UNAVAILABLE <=> probed.response.raised
        /\ LatestStatus = STATUS_UNAVAILABLE <=> ~probed.tested[1]
        /\ LatestStatus = STATUS_QUERY_FAILED <=>
                (probed.tested[1] /\ ~probed.tested[2])
        /\ LatestStatus = STATUS_AVAILABLE <=>
                (probed.tested[1] /\ probed.tested[2])
    /\ \A k \in DOMAIN result : result[k].status \in Statuses
    /\ Built => \A item \in Records : item.status \in Statuses

\* The probes of one run have produced all three statuses.
C15_Witness ==
    /\ pc \in {"probe", "write_report"}
    /\ probed # None
    /\ {result[k].status : k \in DOMAIN result} = Statuses
    /\ LatestStatus = STATUS_QUERY_FAILED
    /\ ~probed.response.raised

\* The key of the SPARQL JSON results document that holds the result of a
\* query of the given form.
ExpectedKey(query) == IF query = "ASK" THEN "boolean" ELSE "results"

WellFormed(query, response) ==
    ~response.raised /\ response.isDict /\ ExpectedKey(query) \in response.keys

\* C16: a response that is the well-formed result of the query sent makes
\* test_endpoint return (True, True) and the endpoint available; it returns
\* (True, False) only for a response without the key of the query sent.
C16_WellFormedIsAvailable ==
    (pc \in {"probe", "write_report"} /\ probed # None) =>
        /\ WellFormed(Query, probed.response) =>
            /\ probed.tested = <<TRUE, TRUE>>
            /\ LatestStatus = STATUS_AVAILABLE
        /\ probed.tested = <<TRUE, FALSE>> =>
            ~WellFormed(Query, probed.response)

\* C17: in a built report every lastAvailable is the created date of a
\* report some run has loaded in which the @id was available; it lies on a
\* record that is not available; and it is not later than the created date
\* of the report when no report file on disk is of a later date than the
\* run (as is the case when run dates never decrease).
C17_LastAvailableIsLoadedSighting ==
    Built =>
        \A item \in Records :
            HasLastAvailable(item) =>
                /\ <<item.id, item.lastAvailable>> \in sightings
                /\ item.status # STATUS_AVAILABLE
                /\ (\A d \in Dates : files[d] # Absent => d <= today)
                    => item.lastAvailable <= report.metadata.created

\* A carried lastAvailable, older than the report that was loaded, in a run
\* on a date that no file on disk exceeds.
C17_Witness ==
    /\ Written
    /\ \A d \in Dates : files[d] # Absent => d <= today
    /\ \E item \in Records :
        /\ HasLastAvailable(item)
        /\ <<item.id, item.lastAvailable>> \in sightings
        /\ item.lastAvailable < last_report.metadata.created
        /\ last_report.metadata.created < report.metadata.created

\* A run without --symlink has ended and the next run would load, through
\* sparql.json, the file this run wrote.
OwnReportConsulted ==
    /\ exists(directory, files, link)
    /\ link = report_path(today)

\* The parts of C18 that do not concern the run's own report: the history
\* of a run is what sparql.json resolves to when write_report starts, no
\* step of a run without --symlink changes the link, and a run that finds
\* no link writes no lastAvailable.
C18_Frame ==
    /\ (pc = "write_report" /\ pc' = "write_json") =>
            last_report' = load_json(directory, files, link)
    /\ (pc # "idle" /\ ~args.symlink) => link' = link
    /\ (pc = "write_report" /\ pc' = "write_json" /\ link = NoLink) =>
            \A k \in DOMAIN report'.report :
                "lastAvailable" \notin DOMAIN report'.report[k]

\* C18 as stated: with the frame, the report of a run without --symlink is
\* never the one a later run loads.
C18_OwnReportNeverConsulted ==
    /\ [][C18_Frame]_vars
    /\ []((pc = "exit" /\ ~args.symlink) => ~OwnReportConsulted)

\* C18 amended: with the frame, the report of a run without --symlink is
\* the one a later run loads exactly when sparql.json already resolved,
\* when the run loaded its history, to the report file of the run's date.
C18_OwnReportConsultedIffSameDate ==
    /\ [][C18_Frame]_vars
    /\ []((pc = "exit" /\ ~args.symlink) =>
            /\ OwnReportConsulted <=>
                (last_report # None /\ last_report.metadata.created = today)
            /\ OwnReportConsulted =>
                load_json(directory, files, link) = report)

\* A run without --symlink on a date other than the pointer's has ended:
\* the pointer still resolves to the report that was loaded.
C18_Witness ==
    /\ pc = "exit" /\ ~args.symlink
    /\ last_report # None
    /\ last_report.metadata.created # today
    /\ load_json(directory, files, link) = last_report
    /\ report.report # last_report.report

====
